---- MODULE Spec2Model ----
(***************************************************************************)
(* Name service on offchain state: the NameService contract, the offchain *)
(* state it declares (a registry map and a premium field), the action log *)
(* its methods dispatch to, and settlement of that log into the on-chain   *)
(* commitments by a settlement proof.                                      *)
(*                                                                         *)
(* The repository holds two revisions of the contract.  NameService.ts     *)
(* guards register_name by "the name has no settled record" and has no     *)
(* pause guard; the second revision (part_000) guards register_name,      *)
(* set_record and transfer_name_ownership by "not paused" and has no       *)
(* registry guard in register_name.  The variable build says which one is *)
(* deployed.                                                               *)
(*                                                                         *)
(* OffchainState is the o1js library: get reads the settled Merkle tree,   *)
(* update dispatches an action carrying its precondition, a settlement     *)
(* proof replays every action dispatched since the committed action state  *)
(* and applies an action only if its precondition holds at that point,     *)
(* and settle accepts a proof whose input is the stored commitments and    *)
(* whose output action state is the account's action state.                *)
(***************************************************************************)
EXTENDS Integers, Sequences, FiniteSets, TLC

\* Bounds of the model
MaxLog == 3        \* actions dispatched in one behaviour
Capacity == 3      \* character slots of a packed key (31 in Name)
CharBits == 2      \* width of one character slot in bits
maxActionsPerProof == 2   \* actions one step of a settlement proof takes (5 in offchainState)
MaxCalls == 7      \* calls of settlementCycle from outside the daemon

Builds == {"NameService.ts", "part_000"}
Accounts == {"sender", "user1"}
\* Whoever runs createSettlementProof and sends settle: each holds the last
\* proof it created
Settlers == {"settler1", "settler2"}
Deployer == "sender"
Names == {"name1", "name2"}
Avatars == {0, 1}
Urls == {1}
Premiums == {1, 2}

NameRecords == [mina_address : Accounts, avatar : Avatars, url : Urls]

\* NameRecord.empty(): the value an absent option carries
emptyRecord == [mina_address |-> "empty", avatar |-> 0, url |-> 0]

\* Option(type) of o1js: isSome and a value, the empty value when absent
None(empty) == [isSome |-> FALSE, value |-> empty]
Some(v) == [isSome |-> TRUE, value |-> v]

VARIABLES
    build,        \* revision of the contract that is deployed
    admin,        \* @state admin
    paused,       \* @state paused
    commitments,  \* @state offchainState commitments: settled state and action state
    log,          \* actions dispatched by the contract account, oldest first
    balance,      \* premiums received by the contract account
    proofs,       \* per settler: the settlement proof it holds
    consumed,     \* per action of the log: how many accepted settlements replayed it
    applied,      \* per action of the log: how many accepted settlements applied it
    codec,        \* the packed-key codec at work: a string, its key, the key decoded
    daemon        \* the settlement daemon: counter, proof, timers, cycles under way

vars == <<build, admin, paused, commitments, log, balance, proofs, consumed, applied,
          codec, daemon>>

\* The empty commitments: no entry in any field, no action settled
emptyCommitments ==
    [registry |-> [n \in Names |-> None(emptyRecord)],
     premium |-> None(0),
     actionState |-> 0]

\* The account's action state: the log dispatched so far
accountActionState == Len(log)

\* Actions dispatched and not settled
Pending == SubSeq(log, commitments.actionState + 1, Len(log))

-----------------------------------------------------------------------------
\* Reads: offchainState.fields.<field>.get against the settled commitments

registry_get(name) == commitments.registry[name]

premium_get == commitments.premium

\* The outcome of a read: the value returned or the assertion that failed
Ok(v) == [ok |-> TRUE, value |-> v]
Throws(msg) == [ok |-> FALSE, error |-> msg]

resolve_name(name) ==
    LET current == registry_get(name)
    IN  IF current.isSome THEN Ok(current.value) ELSE Throws("this name is not owned")

owner_of(name) ==
    LET current == registry_get(name)
    IN  IF current.isSome THEN Ok(current.value.mina_address)
        ELSE Throws("this name is not owned")

premium_rate ==
    IF premium_get.isSome THEN Ok(premium_get.value) ELSE Throws("premium is not initialized")

get_admin == admin

is_paused == paused

\* Everything a caller can read from the offchain state
Reads ==
    [resolve |-> [n \in Names |-> resolve_name(n)],
     owner |-> [n \in Names |-> owner_of(n)],
     premium |-> premium_rate]

-----------------------------------------------------------------------------
\* Settlement: replay of a batch of actions on a settled state

CurrentValue(st, a) ==
    IF a.field = "registry" THEN st.registry[a.key] ELSE st.premium

\* A variant that takes an absent from option as "no precondition"
PreconditionUnlessUndefined(st, a) == ~a.from.isSome \/ CurrentValue(st, a) = a.from

\* The precondition of an action: its from option is the current value
PreconditionHolds(st, a) == CurrentValue(st, a) = a.from

\* A variant that writes a registry action's from value instead of its to
\* value
SetValueSwapped(st, a) ==
    IF a.field = "registry"
    THEN [st EXCEPT !.registry[a.key] = a.from]
    ELSE [st EXCEPT !.premium = a.to]

SetValue(st, a) ==
    IF a.field = "registry"
    THEN [st EXCEPT !.registry[a.key] = a.to]
    ELSE [st EXCEPT !.premium = a.to]

\* A variant that applies every action whatever its precondition
ApplyActionUnchecked(st, a) == SetValue(st, a)

\* One action of the replay: applied if its precondition holds, else skipped
ApplyAction(st, a) ==
    IF PreconditionHolds(st, a) THEN SetValue(st, a) ELSE st

RECURSIVE ReplayEach(_, _)
ReplayEach(st, batch) ==
    IF batch = <<>> THEN st
    ELSE ReplayEach(ApplyAction(st, Head(batch)), Tail(batch))

RECURSIVE AllHold(_, _)
AllHold(st, batch) ==
    IF batch = <<>> THEN TRUE
    ELSE /\ PreconditionHolds(st, Head(batch))
         /\ AllHold(ApplyAction(st, Head(batch)), Tail(batch))

\* A variant that applies the batch only if every precondition holds
ReplayAllOrNothing(st, batch) ==
    IF AllHold(st, batch) THEN ReplayEach(st, batch) ELSE st

\* A variant that replays the batch latest action first
RECURSIVE ReplayReversed(_, _)
ReplayReversed(st, batch) ==
    IF batch = <<>> THEN st
    ELSE ApplyAction(ReplayReversed(st, Tail(batch)), Head(batch))

\* The replay of a batch: every action in log order
Replay(st, batch) == ReplayEach(st, batch)

\* For each action of the batch, whether its precondition held when replayed
RECURSIVE ReplayValid(_, _)
ReplayValid(st, batch) ==
    IF batch = <<>> THEN <<>>
    ELSE <<PreconditionHolds(st, Head(batch))>>
             \o ReplayValid(ApplyAction(st, Head(batch)), Tail(batch))

-----------------------------------------------------------------------------
\* Writes: offchainState.fields.<field>.update dispatches one action

RegistryAction(name, from, to) ==
    [field |-> "registry", key |-> name, from |-> from, to |-> Some(to)]

PremiumAction(from, to) ==
    [field |-> "premium", key |-> "", from |-> from, to |-> Some(to)]

\* A variant that also writes the value into the settled state at once
DispatchEager(action) ==
    /\ log' = Append(log, action)
    /\ consumed' = Append(consumed, 0)
    /\ applied' = Append(applied, 0)
    /\ commitments' = SetValue(commitments, action)

Dispatch(action) ==
    /\ log' = Append(log, action)
    /\ consumed' = Append(consumed, 0)
    /\ applied' = Append(applied, 0)
    /\ UNCHANGED commitments

-----------------------------------------------------------------------------
\* A variant that replays the batch on the empty state instead of the
\* settled one
SettlementProofFromScratch(old, actions, actionState) ==
    [made |-> TRUE,
     publicInput |-> old,
     publicOutput |-> [Replay(emptyCommitments, actions) EXCEPT !.actionState = actionState],
     valid |-> ReplayValid(emptyCommitments, actions),
     results |-> {}]

\* The replay as the prover runs it: a first step over at most
\* maxActionsPerProof actions, then further steps over the rest
RECURSIVE ReplayInChunks(_, _)
ReplayInChunks(st, actions) ==
    IF actions = <<>> THEN st
    ELSE LET n == IF Len(actions) < maxActionsPerProof THEN Len(actions)
                  ELSE maxActionsPerProof
         IN  ReplayInChunks(Replay(st, SubSeq(actions, 1, n)),
                            SubSeq(actions, n + 1, Len(actions)))

\* A variant that stops after the first step of at most maxActionsPerProof
\* actions
SettlementProofFirstChunk(old, actions, actionState) ==
    LET n == IF Len(actions) < maxActionsPerProof THEN Len(actions)
             ELSE maxActionsPerProof
    IN  [made |-> TRUE,
         publicInput |-> old,
         publicOutput |-> [Replay(old, SubSeq(actions, 1, n))
                              EXCEPT !.actionState = old.actionState + n],
         valid |-> ReplayValid(old, SubSeq(actions, 1, n)),
         results |-> {}]

\* The proof createSettlementProof builds: from the stored commitments over
\* every action dispatched since, to the account's action state
SettlementProofOf(old, actions, actionState) ==
    [made |-> TRUE,
     publicInput |-> old,
     publicOutput |-> [Replay(old, actions) EXCEPT !.actionState = actionState],
     valid |-> ReplayValid(old, actions),
     results |-> {}]

\* The proof variable before any proof was created
NoProof ==
    [made |-> FALSE,
     publicInput |-> emptyCommitments,
     publicOutput |-> emptyCommitments,
     valid |-> <<>>,
     results |-> {}]

\* A variant that does not compare the proof's input with the commitments
SettleAcceptsAnyInput(proof) ==
    proof.publicOutput.actionState = accountActionState

\* A variant that also refuses a proof whose batch holds an action whose
\* precondition failed
SettleAcceptsAllValid(proof) ==
    /\ proof.publicInput = commitments
    /\ proof.publicOutput.actionState = accountActionState
    /\ \A i \in DOMAIN proof.valid : proof.valid[i]

\* offchainState.settle: the proof moves the stored commitments forward and
\* covers the actions dispatched so far
SettleAccepts(proof) ==
    /\ proof.publicInput = commitments
    /\ proof.publicOutput.actionState = accountActionState

-----------------------------------------------------------------------------
\* The packed-key codec (Name = PackedStringFactory(31)): a string is a
\* sequence of character codes, a key the concatenation of fixed-width
\* character slots into one integer, unused trailing slots zero

Base == 2 ^ CharBits

\* The codes a slot can hold next to the padding code 0
Supported == 1 .. (Base - 1)

RECURSIVE pack(_)
pack(s) == IF s = <<>> THEN 0 ELSE Head(s) + Base * pack(Tail(s))

encode(s) ==
    IF Len(s) > Capacity \/ \E i \in DOMAIN s : s[i] \notin Supported
    THEN Throws("EncodingError")
    ELSE Ok(pack(s))

\* The character slots of a key, first slot first
unpack(k) == [i \in 1 .. Capacity |-> (k \div (Base ^ (i - 1))) % Base]

\* A string without its trailing padding
RECURSIVE trim(_)
trim(s) ==
    IF s # <<>> /\ s[Len(s)] = 0 THEN trim(SubSeq(s, 1, Len(s) - 1)) ELSE s

\* A variant that keeps the padding slots
decodeUntrimmed(k) == unpack(k)

decode(k) == trim(unpack(k))

\* No string is being encoded
CodecIdle == [stage |-> "idle", input |-> <<>>, packed |-> Ok(0), output |-> <<>>]

-----------------------------------------------------------------------------
\* The settlement daemon (settlement.ts).  What an invocation of
\* settlementCycle receives as its parameter: the SettlementInputs object of a
\* caller, or what a timer of the daemon passes on
SettlementInputs == "SettlementInputs"
FieldsUndefined == "fields undefined"
Undefined == "undefined"
TimerArgs == {FieldsUndefined, Undefined}

\* setTimeout(settlementCycle, RETRY_WAIT_SECONDS, feePayer, nameservice,
\* feepayerKey, zkAppKey): the later invocation receives feePayer as its one
\* parameter and destructures the four fields from it
Rescheduled(inputs) == IF inputs = SettlementInputs THEN FieldsUndefined ELSE Undefined

\* An attempt under way: where it waits, with which parameter, and whether
\* createSettlementProof threw
Attempts == [pc : {"proving", "submitting"},
             inputs : {SettlementInputs, FieldsUndefined},
             failed : BOOLEAN]

\* How the last finished cycle went
NoCycle == [branch |-> "none", inputs |-> SettlementInputs, proofFailed |-> FALSE,
            tx |-> "none", retry |-> FALSE]

\* let counter = 0; let proof: StateProof; no timer, no cycle
DaemonIdle ==
    [counter |-> 0,
     proof |-> NoProof,
     calls |-> 0,
     timers |-> [k \in TimerArgs |-> 0],
     running |-> [r \in Attempts |-> 0],
     alive |-> TRUE,
     last |-> NoCycle]

-----------------------------------------------------------------------------
Init ==
    /\ build \in Builds
    /\ admin = Deployer
    /\ paused = FALSE
    /\ commitments = emptyCommitments
    /\ log = <<>>
    /\ balance = 0
    /\ proofs = [s \in Settlers |-> NoProof]
    /\ consumed = <<>>
    /\ applied = <<>>
    /\ codec = CodecIdle
    /\ daemon = DaemonIdle

\* A call that throws changes nothing
NoEffect == UNCHANGED vars

\* The pause guard, present in the second revision only
PauseGuard == IF build = "part_000" /\ paused THEN "zkapp is paused" ELSE ""

\* The assertions of register_name in the order they run: "" when all pass
register_name_guard(sender, name) ==
    IF PauseGuard # "" THEN PauseGuard
    ELSE IF build = "NameService.ts" /\ registry_get(name).isSome
    THEN "name is already registered"
    ELSE IF ~premium_rate.ok THEN premium_rate.error
    ELSE ""

register_name(sender, name, record) ==
    /\ Len(log) < MaxLog
    /\ IF register_name_guard(sender, name) # ""
       THEN NoEffect
       ELSE /\ balance' = balance + premium_rate.value
            /\ Dispatch(RegistryAction(name, None(emptyRecord), record))
            /\ UNCHANGED <<build, codec, daemon, admin, paused, proofs>>

\* A variant that does not compare the record's owner with the sender
owner_guardAnySender(sender, name) ==
    IF PauseGuard # "" THEN PauseGuard
    ELSE IF ~registry_get(name).isSome THEN "this name is not owned"
    ELSE ""

\* The assertions shared by set_record and transfer_name_ownership
owner_guard(sender, name) ==
    IF PauseGuard # "" THEN PauseGuard
    ELSE IF ~registry_get(name).isSome THEN "this name is not owned"
    ELSE IF registry_get(name).value.mina_address # sender THEN "not the owner"
    ELSE ""

set_record(sender, name, new_record) ==
    /\ Len(log) < MaxLog
    /\ LET current_record == registry_get(name)
       IN  IF owner_guard(sender, name) # ""
           THEN NoEffect
           ELSE /\ Dispatch(RegistryAction(name, current_record, new_record))
                /\ UNCHANGED <<build, codec, daemon, admin, paused, balance, proofs>>

\* A variant that builds the new record from the new owner alone
transfer_name_ownershipFresh(sender, name, new_owner) ==
    /\ Len(log) < MaxLog
    /\ LET current_record == registry_get(name)
           new_record == [mina_address |-> new_owner, avatar |-> 0, url |-> 1]
       IN  IF owner_guard(sender, name) # ""
           THEN NoEffect
           ELSE /\ Dispatch(RegistryAction(name, current_record, new_record))
                /\ UNCHANGED <<build, codec, daemon, admin, paused, balance, proofs>>

transfer_name_ownership(sender, name, new_owner) ==
    /\ Len(log) < MaxLog
    /\ LET current_record == registry_get(name)
           new_record == [mina_address |-> new_owner,
                          avatar |-> current_record.value.avatar,
                          url |-> current_record.value.url]
       IN  IF owner_guard(sender, name) # ""
           THEN NoEffect
           ELSE /\ Dispatch(RegistryAction(name, current_record, new_record))
                /\ UNCHANGED <<build, codec, daemon, admin, paused, balance, proofs>>

set_premium(sender, new_premimum) ==
    /\ Len(log) < MaxLog
    /\ LET current_premium == premium_get
       IN  /\ Dispatch(PremiumAction(current_premium, new_premimum))
           /\ UNCHANGED <<build, codec, daemon, admin, paused, balance, proofs>>

\* A variant that lets every sender pass
admin_guardNone(sender) == ""

admin_guard(sender) == IF admin # sender THEN "not the admin" ELSE ""

\* A variant that also dispatches an action to the log
toggle_pauseQueued(sender) ==
    IF admin_guard(sender) # ""
    THEN NoEffect
    ELSE /\ Len(log) < MaxLog
         /\ paused' = ~paused
         /\ Dispatch(PremiumAction(premium_get, 1))
         /\ UNCHANGED <<build, codec, daemon, admin, balance, proofs>>

\* A variant that writes paused before the admin assertion fails
toggle_pauseWritesFirst(sender) ==
    /\ paused' = ~paused
    /\ UNCHANGED <<build, codec, daemon, admin, commitments, log, balance, proofs, consumed, applied>>

toggle_pause(sender) ==
    IF admin_guard(sender) # ""
    THEN NoEffect
    ELSE /\ paused' = ~paused
         /\ UNCHANGED <<build, codec, daemon, admin, commitments, log, balance, proofs, consumed, applied>>

change_admin(sender, new_admin) ==
    IF admin_guard(sender) # ""
    THEN NoEffect
    ELSE /\ admin' = new_admin
         /\ UNCHANGED <<build, codec, daemon, paused, commitments, log, balance, proofs, consumed, applied>>

\* createSettlementProof by a settler: a proof over everything pending, or
\* an error of the prover, which leaves the settler's proof as it was
createSettlementProof(s) ==
    \/ /\ proofs' = [proofs EXCEPT
                       ![s] = SettlementProofOf(commitments, Pending, accountActionState)]
       /\ UNCHANGED <<build, codec, daemon, admin, paused, commitments, log, balance, consumed, applied>>
    \/ NoEffect

\* Indices of the log a proof replays
Batch(proof) == (proof.publicInput.actionState + 1) .. proof.publicOutput.actionState

\* A variant in which a failing settle transaction still writes the
\* proof's output
settleWritesFirst(s) ==
    LET proof == proofs[s]
    IN  IF ~proof.made
        THEN NoEffect
        ELSE /\ commitments' = proof.publicOutput
             /\ proofs' = [proofs EXCEPT ![s].results =
                              @ \cup {IF SettleAccepts(proof) THEN "accepted" ELSE "rejected"}]
             /\ UNCHANGED <<build, codec, daemon, admin, paused, log, balance, consumed, applied>>

\* The transaction settle(proof) with the proof a settler holds: the
\* commitments are set to the proof's output, or the transaction fails
settle(s) ==
    LET proof == proofs[s]
    IN  IF ~proof.made
        THEN NoEffect
        ELSE IF SettleAccepts(proof)
        THEN /\ commitments' = proof.publicOutput
             /\ consumed' = [k \in DOMAIN consumed |->
                               IF k \in Batch(proof) THEN consumed[k] + 1 ELSE consumed[k]]
             /\ applied' = [k \in DOMAIN applied |->
                               IF k \in Batch(proof)
                                  /\ proof.valid[k - proof.publicInput.actionState]
                               THEN applied[k] + 1 ELSE applied[k]]
             /\ proofs' = [proofs EXCEPT ![s].results = @ \cup {"accepted"}]
             /\ UNCHANGED <<build, codec, daemon, admin, paused, log, balance>>
        ELSE /\ proofs' = [proofs EXCEPT ![s].results = @ \cup {"rejected"}]
             /\ UNCHANGED <<build, codec, daemon, admin, paused, commitments, log, balance, consumed, applied>>

\* The contract used as the tests use it: name and premium calls, and one
\* settler
Next ==
    \/ \E s \in Accounts, n \in Names, r \in NameRecords : register_name(s, n, r)
    \/ \E s \in Accounts, n \in Names, r \in NameRecords : set_record(s, n, r)
    \/ \E s \in Accounts, n \in Names, o \in Accounts : transfer_name_ownership(s, n, o)
    \/ \E s \in Accounts, p \in Premiums : set_premium(s, p)
    \/ createSettlementProof("settler1")
    \/ settle("settler1")

Spec == Init /\ [][Next]_vars

\* Two settlers at once, over premium updates
NextRace ==
    \/ \E s \in Accounts, p \in Premiums : set_premium(s, p)
    \/ \E s \in Settlers : createSettlementProof(s)
    \/ \E s \in Settlers : settle(s)

SpecRace == Init /\ [][NextRace]_vars

\* The contract with the admin's calls
NextAdmin ==
    \/ Next
    \/ \E s \in Accounts : toggle_pause(s)
    \/ \E s \in Accounts, a \in Accounts : change_admin(s, a)

SpecAdmin == Init /\ [][NextAdmin]_vars

\* The contract as the tests' setup leaves it: deployed, a premium set and
\* settled.  The log and the action state are counted from this state on.
InitSetup ==
    /\ build \in Builds
    /\ admin = Deployer
    /\ paused = FALSE
    /\ commitments = [emptyCommitments EXCEPT !.premium = Some(1)]
    /\ log = <<>>
    /\ balance = 0
    /\ proofs = [s \in Settlers |-> NoProof]
    /\ consumed = <<>>
    /\ applied = <<>>
    /\ codec = CodecIdle
    /\ daemon = DaemonIdle

\* The name calls of the tests after the setup, and one settler: every call
\* on name1, and registrations of name2 by a sender to itself
NextSetup ==
    \/ \E s \in Accounts, r \in NameRecords : register_name(s, "name1", r)
    \/ \E s \in Accounts :
           register_name(s, "name2", [mina_address |-> s, avatar |-> 0, url |-> 1])
    \/ \E s \in Accounts, r \in NameRecords : set_record(s, "name1", r)
    \/ \E s \in Accounts, o \in Accounts : transfer_name_ownership(s, "name1", o)
    \/ createSettlementProof("settler1")
    \/ settle("settler1")

SpecSetup == InitSetup /\ [][NextSetup]_vars

\* The admin's calls next to premium updates, and one settler
NextGovern ==
    \/ \E s \in Accounts, p \in Premiums : set_premium(s, p)
    \/ \E s \in Accounts : toggle_pause(s)
    \/ \E s \in Accounts, a \in Accounts : change_admin(s, a)
    \/ createSettlementProof("settler1")
    \/ settle("settler1")

SpecGovern == Init /\ [][NextGovern]_vars

\* Every call that has a guard, on one name, after the setup: a sender
\* registers the name to itself and sets the other avatar
NextGuards ==
    \/ \E s \in Accounts :
           register_name(s, "name1", [mina_address |-> s, avatar |-> 0, url |-> 1])
    \/ \E s \in Accounts :
           set_record(s, "name1", [mina_address |-> s, avatar |-> 1, url |-> 1])
    \/ \E s \in Accounts, o \in Accounts : transfer_name_ownership(s, "name1", o)
    \/ \E s \in Accounts : toggle_pause(s)
    \/ \E s \in Accounts, a \in Accounts : change_admin(s, a)
    \/ createSettlementProof("settler1")
    \/ settle("settler1")

SpecGuards == InitSetup /\ [][NextGuards]_vars

\* Registrations after the tests' setup, each sender registering a name to
\* itself, and a settler whose attempts are repeated fairly: as long as its
\* proof is not the one of the pending actions it creates one in the end,
\* and it sends the proof it holds
NextFair ==
    \/ \E s \in Accounts, n \in Names :
           register_name(s, n, [mina_address |-> s, avatar |-> 0, url |-> 1])
    \/ createSettlementProof("settler1")
    \/ settle("settler1")

SpecFair ==
    /\ InitSetup /\ [][NextFair]_vars
    /\ WF_vars(createSettlementProof("settler1"))
    /\ WF_vars(settle("settler1"))

\* Strings a caller may hand to the codec: supported and unsupported codes,
\* up to one character more than a key holds
RECURSIVE StringsOver(_, _)
StringsOver(chars, n) ==
    IF n = 0 THEN {<<>>}
    ELSE LET shorter == StringsOver(chars, n - 1)
         IN  shorter \cup {Append(t, c) : t \in shorter, c \in chars}

Inputs == StringsOver(0 .. Base, Capacity + 1)

\* Name.fromString(s): the key of a string, or the encoding error
fromString(s) ==
    /\ codec.stage = "idle"
    /\ codec' = [stage |-> "encoded", input |-> s, packed |-> encode(s), output |-> <<>>]
    /\ UNCHANGED <<build, daemon, admin, paused, commitments, log, balance, proofs,
                   consumed, applied>>

\* new Name(key).toString(): the string of the key encoded last
toString ==
    /\ codec.stage = "encoded"
    /\ codec.packed.ok
    /\ codec' = [codec EXCEPT !.stage = "decoded", !.output = decode(codec.packed.value)]
    /\ UNCHANGED <<build, daemon, admin, paused, commitments, log, balance, proofs,
                   consumed, applied>>

NextCodec ==
    \/ \E s \in Inputs : fromString(s)
    \/ toString

SpecCodec == Init /\ [][NextCodec]_vars
-----------------------------------------------------------------------------
\* The settlement daemon at work

\* let actions = 1
actions == 1

\* let shouldSettle = actions > 6 || counter > 10
shouldSettle(d) == actions > 6 \/ d.counter > 10

\* The process ends on the unhandled rejection: timers and cycles are gone
Exit(d) ==
    [d EXCEPT !.alive = FALSE,
              !.timers = [k \in TimerArgs |-> 0],
              !.running = [r \in Attempts |-> 0]]

\* settlementCycle(inputs) up to its first await, in the daemon state d.
\* Destructuring undefined throws before the body and its try: the promise
\* is rejected, which the runtime reports and ignores, or ends the process
\* on.  Otherwise the cycle defers (counter++, one timer) or begins an attempt
\* and waits for createSettlementProof.
settlementCycle(d, inputs) ==
    IF inputs = Undefined
    THEN \E e \in {d, Exit(d)} :
             daemon' = [e EXCEPT !.last = [NoCycle EXCEPT !.branch = "throws",
                                                         !.inputs = inputs]]
    ELSE IF ~shouldSettle(d)
    THEN daemon' = [d EXCEPT !.counter = @ + 1,
                             !.timers[Rescheduled(inputs)] = @ + 1,
                             !.last = [NoCycle EXCEPT !.branch = "deferred",
                                                      !.inputs = inputs,
                                                      !.retry = TRUE]]
    ELSE daemon' = [d EXCEPT !.running[[pc |-> "proving", inputs |-> inputs,
                                        failed |-> FALSE]] = @ + 1]

\* A caller outside the daemon calls settlementCycle with its inputs
Call ==
    /\ daemon.alive
    /\ daemon.calls < MaxCalls
    /\ settlementCycle([daemon EXCEPT !.calls = @ + 1], SettlementInputs)
    /\ UNCHANGED <<build, codec, admin, paused, commitments, log, balance, proofs,
                   consumed, applied>>

\* A timer set by an earlier cycle fires
TimerFires(k) ==
    /\ daemon.timers[k] > 0
    /\ settlementCycle([daemon EXCEPT !.timers[k] = @ - 1], k)
    /\ UNCHANGED <<build, codec, admin, paused, commitments, log, balance, proofs,
                   consumed, applied>>

\* A variant of the end of proving that sets the retry timer as soon as
\* createSettlementProof has thrown
ProofDoneRetriesAtOnce(r) ==
    /\ r.pc = "proving" /\ daemon.running[r] > 0
    /\ \/ daemon' = [daemon EXCEPT
                        !.proof = SettlementProofOf(commitments, Pending, accountActionState),
                        !.running[r] = @ - 1,
                        !.running[[r EXCEPT !.pc = "submitting"]] = @ + 1]
       \/ daemon' = [daemon EXCEPT
                        !.running[r] = @ - 1,
                        !.running[[r EXCEPT !.pc = "submitting", !.failed = TRUE]] = @ + 1,
                        !.timers[Rescheduled(r.inputs)] = @ + 1]
    /\ UNCHANGED <<build, codec, admin, paused, commitments, log, balance, proofs,
                   consumed, applied>>

\* proof = await offchainState.createSettlementProof() comes back: the
\* module's proof is assigned, or the call threw and proof is what it was;
\* the finally clause goes on to the transaction either way
ProofDone(r) ==
    /\ r.pc = "proving" /\ daemon.running[r] > 0
    /\ \/ daemon' = [daemon EXCEPT
                        !.proof = SettlementProofOf(commitments, Pending, accountActionState),
                        !.running[r] = @ - 1,
                        !.running[[r EXCEPT !.pc = "submitting"]] = @ + 1]
       \/ daemon' = [daemon EXCEPT
                        !.running[r] = @ - 1,
                        !.running[[r EXCEPT !.pc = "submitting", !.failed = TRUE]] = @ + 1]
    /\ UNCHANGED <<build, codec, admin, paused, commitments, log, balance, proofs,
                   consumed, applied>>

\* What becomes of the transaction of the inner try: without nameservice or
\* without a proof it throws while it is built; otherwise it reaches the
\* ledger, which accepts or rejects settle(proof), unless fetching, proving or
\* sending throws
TxOutcomes(r) ==
    IF r.inputs # SettlementInputs \/ ~daemon.proof.made
    THEN {"not built"}
    ELSE {"throws", IF SettleAccepts(daemon.proof) THEN "accepted" ELSE "rejected"}

\* The inner try comes to its end: the transaction with the module's proof
\* was accepted, rejected or threw (the inner catch logs that), counter = 0,
\* and an exception of createSettlementProof now reaches the outer catch,
\* which sets the retry timer
SubmitDone(r) ==
    /\ r.pc = "submitting" /\ daemon.running[r] > 0
    /\ \E tx \in TxOutcomes(r) :
           /\ IF tx = "accepted"
              THEN /\ commitments' = daemon.proof.publicOutput
                   /\ consumed' = [k \in DOMAIN consumed |->
                                     IF k \in Batch(daemon.proof)
                                     THEN consumed[k] + 1 ELSE consumed[k]]
                   /\ applied' = [k \in DOMAIN applied |->
                                    IF k \in Batch(daemon.proof)
                                       /\ daemon.proof.valid[k - daemon.proof.publicInput.actionState]
                                    THEN applied[k] + 1 ELSE applied[k]]
              ELSE UNCHANGED <<commitments, consumed, applied>>
           /\ daemon' = [daemon EXCEPT
                   !.counter = 0,
                   !.running[r] = @ - 1,
                   !.timers[Rescheduled(r.inputs)] = IF r.failed THEN @ + 1 ELSE @,
                   !.last = [branch |-> "attempt", inputs |-> r.inputs,
                             proofFailed |-> r.failed, tx |-> tx, retry |-> r.failed]]
    /\ UNCHANGED <<build, codec, admin, paused, log, balance, proofs>>

\* The daemon beside a contract whose admin sets the premium of the tests
NextDaemon ==
    \/ set_premium(Deployer, 1)
    \/ Call
    \/ \E k \in TimerArgs : TimerFires(k)
    \/ \E r \in Attempts : ProofDone(r)
    \/ \E r \in Attempts : SubmitDone(r)

SpecDaemon == Init /\ [][NextDaemon]_vars

\* The daemon with its own steps taken in the end: a timer that is set
\* fires, createSettlementProof and the transaction come back.  Calls from
\* outside are not owed to the daemon.
FairDaemon ==
    /\ SpecDaemon
    /\ WF_vars(\E k \in TimerArgs : TimerFires(k))
    /\ WF_vars(\E r \in Attempts : ProofDone(r))
    /\ WF_vars(\E r \in Attempts : SubmitDone(r))

\* The daemon started beside a contract with a backlog: seven set_premium
\* calls were made since the deployment and none is settled
InitBacklog ==
    /\ build \in Builds
    /\ admin = Deployer
    /\ paused = FALSE
    /\ commitments = emptyCommitments
    /\ log = [i \in 1 .. 7 |-> PremiumAction(None(0), 1)]
    /\ balance = 0
    /\ proofs = [s \in Settlers |-> NoProof]
    /\ consumed = [i \in 1 .. 7 |-> 0]
    /\ applied = [i \in 1 .. 7 |-> 0]
    /\ codec = CodecIdle
    /\ daemon = DaemonIdle

NextBacklog ==
    \/ Call
    \/ \E k \in TimerArgs : TimerFires(k)
    \/ \E r \in Attempts : ProofDone(r)
    \/ \E r \in Attempts : SubmitDone(r)

SpecBacklog == InitBacklog /\ [][NextBacklog]_vars
-----------------------------------------------------------------------------
\* Properties

\* Indices of the log settled so far, and of the log still pending
SettledIndices == 1 .. commitments.actionState
PendingIndices == (commitments.actionState + 1) .. Len(log)

\* A registration: a registry action that expects no previous value
IsRegister(a) == a.field = "registry" /\ a.from = None(emptyRecord)

\* A step in which a settlement was accepted and advanced the action state
SettlementStep == commitments'.actionState > commitments.actionState

\* The indices replayed by the settlement of a SettlementStep
SettledNow == (commitments.actionState + 1) .. commitments'.actionState

\* A step in which some settler's settle transaction was accepted / failed
SettleAcceptedStep ==
    \E s \in Settlers : "accepted" \in proofs'[s].results \ proofs[s].results
SettleFailedStep ==
    \E s \in Settlers : "rejected" \in proofs'[s].results \ proofs[s].results

\* C1: a call that dispatches an action (register_name, set_record,
\* transfer_name_ownership, set_premium) changes no result of resolve_name,
\* owner_of or premium_rate: reads follow the settled commitments only.
C1_ReadsIgnorePending == [][log' # log => Reads' = Reads]_vars

\* A registration is pending and its name does not resolve
C1_Witness ==
    \E k \in PendingIndices :
        /\ IsRegister(log[k])
        /\ resolve_name(log[k].key) = Throws("this name is not owned")

\* C2: a registration of a name absent from the settled registry that is the
\* only pending action on that name makes the name resolve to exactly the
\* submitted record once a settlement has replayed it.
C2_RegisterThenSettle ==
    [][SettlementStep =>
         \A k \in SettledNow :
             ( /\ IsRegister(log[k])
               /\ ~registry_get(log[k].key).isSome
               /\ \A j \in SettledNow \ {k} :
                      ~(log[j].field = "registry" /\ log[j].key = log[k].key) )
             => resolve_name(log[k].key)' = Ok(log[k].to.value)]_vars

\* A settled registration with a non-empty avatar resolves to its record
C2_Witness ==
    \E k \in SettledIndices :
        /\ IsRegister(log[k])
        /\ applied[k] = 1
        /\ log[k].to.value.avatar = 1
        /\ resolve_name(log[k].key) = Ok(log[k].to.value)

\* The settled actions on a name whose precondition held when replayed
AppliedOn(name) ==
    {k \in SettledIndices :
        log[k].field = "registry" /\ log[k].key = name /\ applied[k] > 0}

Max(S) == CHOOSE x \in S : \A y \in S : y <= x

\* C3: after every settlement each name's settled record is the to value of
\* the last settled action on that name, in log order, whose precondition
\* held when it was replayed, and the name does not resolve if there is none.
C3_LastValidActionWins ==
    \A n \in Names :
        IF AppliedOn(n) = {}
        THEN ~resolve_name(n).ok
        ELSE resolve_name(n) = Ok(log[Max(AppliedOn(n))].to.value)

\* A name resolves to an earlier action because a later settled action on it
\* was not applied
C3_Witness ==
    \E n \in Names :
        /\ AppliedOn(n) # {}
        /\ \E j \in SettledIndices :
               /\ j > Max(AppliedOn(n))
               /\ log[j].field = "registry" /\ log[j].key = n
               /\ log[j].to # log[Max(AppliedOn(n))].to

\* C4 as claimed: a settlement whose batch holds an action with a failing
\* precondition is not accepted, so every action an accepted settlement
\* replayed was applied.
C4_AbortsOnFailedPrecondition ==
    \A k \in DOMAIN log : consumed[k] > 0 => applied[k] > 0

\* The state after the actions first .. last of the log, applying exactly
\* those that ok marks
RECURSIVE ApplyMarked(_, _, _, _)
ApplyMarked(st, first, last, ok) ==
    IF first > last THEN st
    ELSE ApplyMarked(IF ok[first] THEN SetValue(st, log[first]) ELSE st,
                     first + 1, last, ok)

\* C4 as amended: an accepted settlement replays everything pending; an
\* action is applied exactly if its from value is the field's value at that
\* point of the replay, a failing action is skipped and changes nothing, and
\* the other actions of the batch are applied.
C4_SkipsFailedActionOnly ==
    [][SettlementStep =>
         LET ok == [k \in SettledNow |-> applied'[k] > applied[k]]
             before(k) == ApplyMarked(commitments, commitments.actionState + 1, k - 1, ok)
         IN  /\ commitments'.actionState = Len(log)
             /\ \A k \in SettledNow : ok[k] <=> (CurrentValue(before(k), log[k]) = log[k].from)
             /\ commitments' =
                  [ApplyMarked(commitments, commitments.actionState + 1, Len(log), ok)
                      EXCEPT !.actionState = Len(log)]]_vars

\* A settlement replayed an action that it skipped after one that it applied
C4_Witness ==
    \E j, k \in SettledIndices :
        /\ j < k
        /\ consumed[j] = 1 /\ applied[j] = 1
        /\ consumed[k] = 1 /\ applied[k] = 0

\* Two registrations of the same unsettled name among the indices S
DoubleRegister(S, j, k) ==
    /\ j \in S /\ k \in S /\ j < k
    /\ IsRegister(log[j]) /\ IsRegister(log[k])
    /\ log[j].key = log[k].key
    /\ ~registry_get(log[j].key).isSome

\* C5 as claimed: a settlement over two pending registrations of the same
\* unregistered name is never accepted.
C5_DoubleRegisterAborts ==
    [][SettlementStep => ~\E j, k \in SettledNow : DoubleRegister(SettledNow, j, k)]_vars

\* C5 as amended: while registrations of an unregistered name are pending,
\* register_name of that name still passes its guard; the next settlement is
\* accepted, applies the first of them in log order and skips the later ones,
\* so the name resolves to the first record.
C5_FirstRegistrationWins ==
    [][/\ \A k \in PendingIndices, s \in Accounts :
              (IsRegister(log[k]) /\ ~registry_get(log[k].key).isSome /\ ~paused)
              => register_name_guard(s, log[k].key) = ""
       /\ SettlementStep =>
              \A j, k \in SettledNow :
                  ( /\ DoubleRegister(SettledNow, j, k)
                    /\ \A i \in SettledNow : i < j => ~DoubleRegister(SettledNow, i, j) )
                  => /\ applied'[j] = applied[j] + 1
                     /\ applied'[k] = applied[k]
                     /\ resolve_name(log[j].key)' = Ok(log[j].to.value)]_vars

\* Two different registrations of one name were settled together: the name
\* resolves to the first, the second was skipped
C5_Witness ==
    /\ build = "NameService.ts"
    /\ \E j, k \in SettledIndices :
           /\ j < k
           /\ IsRegister(log[j]) /\ IsRegister(log[k])
           /\ log[j].key = log[k].key /\ log[j].to # log[k].to
           /\ applied[j] = 1 /\ consumed[k] = 1 /\ applied[k] = 0
           /\ resolve_name(log[j].key) = Ok(log[j].to.value)

C7_AppliedOnceOrPending ==
    \A k \in DOMAIN log :
        /\ applied[k] <= 1
        /\ applied[k] = 0 => k \in PendingIndices

\* C7 as amended: every action is replayed by at most one accepted
\* settlement and applied at most by that one, and an action no accepted
\* settlement replayed is still pending.
C7_ReplayedOnceOrPending ==
    \A k \in DOMAIN log :
        /\ consumed[k] <= 1
        /\ applied[k] <= consumed[k]
        /\ consumed[k] = 0 <=> k \in PendingIndices

\* After a failed settle transaction one action was replayed and another is
\* still pending
C7_Witness ==
    /\ \E s \in Settlers : "rejected" \in proofs[s].results
    /\ \E j \in SettledIndices : consumed[j] = 1
    /\ \E k \in PendingIndices : consumed[k] = 0

\* Two settlers hold proofs built from the same commitments
SameInput(s, t) ==
    /\ s # t
    /\ proofs[s].made /\ proofs[t].made
    /\ proofs[s].publicInput = proofs[t].publicInput

\* A proof whose batch is empty
EmptyProof(proof) == proof.publicOutput.actionState = proof.publicInput.actionState

\* C8 as claimed: of two proofs built from the same commitments and both
\* submitted, exactly one is accepted.
C8_ExactlyOneAccepted ==
    \A s, t \in Settlers :
        (SameInput(s, t) /\ proofs[s].results # {} /\ proofs[t].results # {})
        => (("accepted" \in proofs[s].results) # ("accepted" \in proofs[t].results))

\* C8 as amended: of two proofs built from the same commitments at most one
\* advances the commitments: if both were accepted, one of them has an empty
\* batch and changed nothing.
C8_AtMostOneAdvances ==
    \A s, t \in Settlers :
        (SameInput(s, t) /\ "accepted" \in proofs[s].results
                         /\ "accepted" \in proofs[t].results)
        => (EmptyProof(proofs[s]) \/ EmptyProof(proofs[t]))

\* Two proofs over a non-empty batch from the same commitments: one was
\* accepted, the other one failed and the commitments are the first one's
C8_Witness ==
    \E s, t \in Settlers :
        /\ SameInput(s, t)
        /\ ~EmptyProof(proofs[s]) /\ ~EmptyProof(proofs[t])
        /\ proofs[s].results = {"accepted"}
        /\ proofs[t].results = {"rejected"}
        /\ commitments = proofs[s].publicOutput

\* C10: a settlement accepted while no action is pending leaves the
\* commitments, and so every read, unchanged.
C10_EmptySettlementIsNoOp ==
    [][(Pending = <<>> /\ SettleAcceptedStep) =>
         /\ commitments' = commitments
         /\ Reads' = Reads]_vars

\* A proof over an empty batch was accepted on a state that holds a premium
C10_Witness ==
    /\ Pending = <<>>
    /\ premium_rate.ok
    /\ \E s \in Settlers :
           /\ proofs[s].made /\ EmptyProof(proofs[s])
           /\ "accepted" \in proofs[s].results
           /\ proofs[s].publicInput = commitments
\* C11: a register_name call that has an effect was made for a name with no
\* settled record, charged the premium and appended the update from None to
\* the submitted record; a call for a name with a settled record is rejected.
C11_RegisterOnlyWhenAbsent ==
    [][\A s \in Accounts, n \in Names, r \in NameRecords :
          (register_name(s, n, r) /\ log' # log)
          => /\ ~registry_get(n).isSome
             /\ balance' = balance + premium_rate.value
             /\ log' = Append(log, RegistryAction(n, None(emptyRecord), r))]_vars
\* An update of an existing record, as set_record and transfer_name_ownership
\* dispatch it
IsUpdate(a) == a.field = "registry" /\ a.from.isSome

\* The action k is the only one on its name among the indices S
OnlyOn(S, k) ==
    \A j \in S \ {k} : ~(log[j].field = "registry" /\ log[j].key = log[k].key)

\* What owner_guard answers on a name without a settled record and to a
\* sender who is not the settled owner
OwnerGuardRejects ==
    \A s \in Accounts, n \in Names :
        /\ (~registry_get(n).isSome /\ PauseGuard = "")
           => owner_guard(s, n) = "this name is not owned"
        /\ (registry_get(n).isSome /\ registry_get(n).value.mina_address # s
              /\ PauseGuard = "")
           => owner_guard(s, n) = "not the owner"

\* A set_record call that has an effect was made by the settled owner and
\* appended the update from the whole settled record to the new one
SetRecordGuarded ==
    \A s \in Accounts, n \in Names, r \in NameRecords :
        (set_record(s, n, r) /\ log' # log)
        => /\ registry_get(n).isSome
           /\ registry_get(n).value.mina_address = s
           /\ log' = Append(log, RegistryAction(n, registry_get(n), r))

\* C12 as claimed: set_record is rejected on a name without a settled record
\* and for a sender who is not its settled owner, else it appends the update
\* from the settled record to the new one, and after the next settlement the
\* name resolves to the new record.
C12_SetRecordThenSettle ==
    [][/\ OwnerGuardRejects
       /\ SetRecordGuarded
       /\ SettlementStep =>
              \A k \in SettledNow :
                  IsUpdate(log[k]) => resolve_name(log[k].key)' = Ok(log[k].to.value)]_vars

\* C12 as amended: the same guards and the same update, and after the next
\* settlement the name resolves to the new record if the update is the only
\* action on that name in the settlement's batch.
C12_SetRecordAloneThenSettle ==
    [][/\ OwnerGuardRejects
       /\ SetRecordGuarded
       /\ SettlementStep =>
              \A k \in SettledNow :
                  (IsUpdate(log[k]) /\ OnlyOn(SettledNow, k))
                  => resolve_name(log[k].key)' = Ok(log[k].to.value)]_vars

\* A settled update changed a record's avatar, which only set_record does,
\* and the name resolves to the new record
C12_Witness ==
    \E k \in SettledIndices :
        /\ IsUpdate(log[k])
        /\ log[k].to.value.avatar # log[k].from.value.avatar
        /\ applied[k] = 1
        /\ resolve_name(log[k].key) = Ok(log[k].to.value)
\* An update that keeps the record's avatar and url, as transfer_name_ownership
\* dispatches it
IsTransfer(a) ==
    /\ IsUpdate(a)
    /\ a.to.value.avatar = a.from.value.avatar
    /\ a.to.value.url = a.from.value.url

\* A transfer_name_ownership call that has an effect was made by the settled
\* owner and appended the update from the settled record to the same record
\* with the new owner
TransferGuarded ==
    \A s \in Accounts, n \in Names, o \in Accounts :
        (transfer_name_ownership(s, n, o) /\ log' # log)
        => /\ registry_get(n).isSome
           /\ registry_get(n).value.mina_address = s
           /\ log' = Append(log, RegistryAction(n, registry_get(n),
                                  [registry_get(n).value EXCEPT !.mina_address = o]))

\* After the settlement the name of action k resolves to the record settled
\* before it with the owner replaced by the owner action k names
OnlyOwnerChanged(k) ==
    resolve_name(log[k].key)' =
        Ok([registry_get(log[k].key).value EXCEPT
               !.mina_address = log[k].to.value.mina_address])

C14_NonOwnerTransferRejected ==
    [][/\ \A s \in Accounts, n \in Names, o \in Accounts :
              (registry_get(n).isSome /\ registry_get(n).value.mina_address # s)
              => /\ owner_guard(s, n) = "not the owner"
                 /\ transfer_name_ownership(s, n, o) => UNCHANGED vars
       /\ \A n \in Names :
              (owner_of(n).ok /\ owner_of(n)' # owner_of(n))
              => /\ SettlementStep
                 /\ \E k \in SettledNow :
                        /\ log[k].key = n /\ log[k].from = registry_get(n)
                        /\ applied'[k] = applied[k] + 1]_vars

\* A settlement was accepted on a state in which a name was already settled:
\* the name still has the owner it had and the other account is rejected
C14_Witness ==
    \E n \in Names, s \in Accounts :
        LET proof == proofs["settler1"]
        IN  /\ proof.made /\ "accepted" \in proof.results
            /\ ~EmptyProof(proof)
            /\ proof.publicInput.registry[n].isSome
            /\ proof.publicOutput = commitments
            /\ owner_of(n) = Ok(proof.publicInput.registry[n].value.mina_address)
            /\ owner_of(n) # Ok(s)
            /\ owner_guard(s, n) = "not the owner"
\* C15: while the registration of a never settled name is pending, set_record
\* and transfer_name_ownership on that name are rejected even for the owner
\* the pending record names; once a settlement has applied the registration
\* the same caller passes the guard.
C15_PendingNameNotOwned ==
    [][/\ \A k \in PendingIndices :
              (IsRegister(log[k]) /\ AppliedOn(log[k].key) = {} /\ PauseGuard = "")
              => LET n == log[k].key
                     s == log[k].to.value.mina_address
                 IN  /\ owner_guard(s, n) = "this name is not owned"
                     /\ \A o \in Accounts :
                            transfer_name_ownership(s, n, o) => UNCHANGED vars
                     /\ \A r \in NameRecords : set_record(s, n, r) => UNCHANGED vars
       /\ SettlementStep =>
              \A k \in SettledNow :
                  (IsRegister(log[k]) /\ applied'[k] = applied[k] + 1)
                  => owner_guard(log[k].to.value.mina_address, log[k].key)' = ""]_vars

\* A registration was settled and an update of its name by the owner it
\* names was accepted afterwards
C15_Witness ==
    \E j, k \in DOMAIN log :
        /\ j < k
        /\ IsRegister(log[j]) /\ applied[j] = 1
        /\ IsTransfer(log[k]) /\ log[k].key = log[j].key
        /\ log[k].from = log[j].to
        /\ log[k].to.value.mina_address # log[j].to.value.mina_address
\* C16: a set_premium call by anyone but the stored admin is rejected and
\* appends no action.
C16_SetPremiumAdminOnly ==
    [][\A s \in Accounts, p \in Premiums :
          (s # admin /\ set_premium(s, p)) => log' = log]_vars
IsPremium(a) == a.field = "premium"

\* C17: premium_rate changes in no step but a settlement, so after a
\* set_premium call it returns the settled premium until the next settlement;
\* after the settlement it returns the new premium if the call's action is the
\* only premium action of the batch.
C17_PremiumAfterSettlement ==
    [][/\ ~SettlementStep => premium_rate' = premium_rate
       /\ SettlementStep =>
              \A k \in SettledNow :
                  ( /\ IsPremium(log[k])
                    /\ \A j \in SettledNow \ {k} : ~IsPremium(log[j]) )
                  => premium_rate' = Ok(log[k].to.value)]_vars

\* A premium was settled, another one was set and settled later, and
\* premium_rate returns the later one
C17_Witness ==
    \E j, k \in SettledIndices :
        /\ j < k
        /\ IsPremium(log[j]) /\ applied[j] = 1
        /\ IsPremium(log[k]) /\ applied[k] = 1
        /\ log[k].from = log[j].to /\ log[k].to # log[j].to
        /\ premium_rate = Ok(log[k].to.value)
\* C18 as claimed: is_paused and get_admin change in no step but an accepted
\* settlement: toggle_pause and change_admin only queue an action.
C18_AdminCallsAreOptimistic ==
    [][~SettleAcceptedStep => (is_paused' = is_paused /\ get_admin' = get_admin)]_vars

\* C18 as amended: an accepted toggle_pause or change_admin appends no action
\* and leaves the commitments alone; is_paused and get_admin return the new
\* value at once, and no settlement changes them.
C18_AdminCallsAreImmediate ==
    [][/\ \A s \in Accounts :
              (s = admin /\ toggle_pause(s))
              => (is_paused' = ~is_paused /\ log' = log /\ commitments' = commitments)
       /\ \A s \in Accounts, a \in Accounts :
              (s = admin /\ change_admin(s, a))
              => (get_admin' = a /\ log' = log /\ commitments' = commitments)
       /\ (SettleAcceptedStep \/ log' # log)
              => (is_paused' = is_paused /\ get_admin' = get_admin)]_vars

\* The contract is paused and has another admin while nothing was dispatched
\* or settled
C18_Witness ==
    /\ is_paused /\ get_admin # Deployer
    /\ log = <<>> /\ commitments = emptyCommitments
\* C19: toggle_pause and change_admin by anyone but the stored admin change
\* nothing, and every step that changes admin or paused is a toggle_pause or
\* change_admin call by the admin stored before the step.
C19_AdminOnly ==
    [][/\ \A s \in Accounts :
              s # admin
              => /\ admin_guard(s) = "not the admin"
                 /\ toggle_pause(s) => UNCHANGED vars
                 /\ \A a \in Accounts : change_admin(s, a) => UNCHANGED vars
       /\ (paused' # paused \/ admin' # admin)
              => (toggle_pause(admin) \/ \E a \in Accounts : change_admin(admin, a))]_vars

\* The admin was changed and the contract paused: the deployer is no longer
\* let through
C19_Witness ==
    /\ admin = "user1" /\ paused
    /\ admin_guard(Deployer) = "not the admin"
    /\ admin_guard("user1") = ""
\* C20: while the contract is paused no register_name, set_record or
\* transfer_name_ownership call appends an action: the only action appended
\* while paused is a premium action.
C20_PausedRejectsNameCalls ==
    [][(paused /\ log' # log) => IsPremium(log'[Len(log')])]_vars
\* What a rejected call must leave alone
Untouched == UNCHANGED <<log, commitments, admin, paused, balance>>

\* C21: a call whose guard rejects it (name already registered, name not
\* owned, sender not the owner, sender not the admin, contract paused) leaves
\* the log, the commitments, admin, paused and the balance as they were.
C21_RejectedCallHasNoEffect ==
    [][/\ \A s \in Accounts, n \in Names, r \in NameRecords :
              (register_name_guard(s, n) # "" /\ register_name(s, n, r)) => Untouched
       /\ \A s \in Accounts, n \in Names, r \in NameRecords :
              (owner_guard(s, n) # "" /\ set_record(s, n, r)) => Untouched
       /\ \A s \in Accounts, n \in Names, o \in Accounts :
              (owner_guard(s, n) # "" /\ transfer_name_ownership(s, n, o)) => Untouched
       /\ \A s \in Accounts :
              (admin_guard(s) # "" /\ toggle_pause(s)) => Untouched
       /\ \A s \in Accounts, a \in Accounts :
              (admin_guard(s) # "" /\ change_admin(s, a)) => Untouched]_vars

\* A state in which the guards reject: a settled name, a sender who does not
\* own it and is not the admin, a premium paid and an action pending
C21_Witness ==
    /\ build = "NameService.ts" /\ ~paused
    /\ balance > 0 /\ Pending # <<>>
    /\ \E s \in Accounts :
           /\ register_name_guard(s, "name1") = "name is already registered"
           /\ owner_guard(s, "name1") = "not the owner"
           /\ owner_guard(s, "name2") = "this name is not owned"
           /\ admin_guard(s) = "not the admin"
\* The strings the codec supports
SupportedStrings == StringsOver(Supported, Capacity)

\* C22: a string of supported characters that fits the key is encoded, the
\* key decodes to that string again, and no other supported string has the
\* same key.
C22_CodecRoundTrips ==
    /\ (codec.stage # "idle" /\ codec.input \in SupportedStrings) => codec.packed.ok
    /\ codec.stage = "decoded" => codec.output = codec.input
    /\ (codec.stage # "idle" /\ codec.packed.ok)
       => \A t \in SupportedStrings : encode(t) = codec.packed => t = codec.input

\* A string shorter than the key was encoded and decoded
C22_Witness ==
    /\ codec.stage = "decoded"
    /\ Len(codec.input) \in 1 .. (Capacity - 1)
    /\ codec.output = codec.input
\* The state after the actions first .. last of the log, replayed one by one
\* in the order of their positions
RECURSIVE InOrder(_, _, _)
InOrder(st, first, last) ==
    IF first > last THEN st
    ELSE InOrder(ApplyAction(st, log[first]), first + 1, last)

\* C23: the log only grows at its end, so an action's position is its
\* sequence number and later calls get later positions; a settlement replays
\* the pending actions by increasing position, so two actions on one field are
\* never applied in the other order.
C23_ReplayInLogOrder ==
    [][/\ \/ log' = log
          \/ (SubSeq(log', 1, Len(log)) = log /\ Len(log') = Len(log) + 1)
       /\ SettlementStep =>
              commitments' = [InOrder(commitments, commitments.actionState + 1, Len(log))
                                 EXCEPT !.actionState = Len(log)]]_vars

\* Two premium updates from the same value were settled together: the earlier
\* one was applied, the later one was not
C23_Witness ==
    \E j, k \in SettledIndices :
        /\ j < k
        /\ IsPremium(log[j]) /\ IsPremium(log[k])
        /\ log[j].from = log[k].from /\ log[j].to # log[k].to
        /\ applied[j] = 1 /\ applied[k] = 0
        /\ premium_rate = Ok(log[j].to.value)
\* A step in which settler s got a new proof from createSettlementProof
NewProof(s) == proofs'[s] # proofs[s] /\ proofs'[s].results = {}

\* C24 as claimed: the batch of a settlement proof holds at most
\* maxActionsPerProof actions.
C24_BatchWithinProofCapacity ==
    [][\A s \in Settlers :
          NewProof(s) => Cardinality(Batch(proofs'[s])) <= maxActionsPerProof]_vars

\* C24 as amended: the batch of a settlement proof is everything pending
\* when it is created: the positions right after the cursor up to the end of
\* the log, none skipped, empty exactly when nothing is pending; a batch of
\* more than maxActionsPerProof actions is replayed in steps of at most that
\* many and settled by the one proof.
C24_BatchIsAllPending ==
    [][\A s \in Settlers :
          NewProof(s)
          => /\ Batch(proofs'[s]) = PendingIndices
             /\ (Batch(proofs'[s]) = {}) <=> (Pending = <<>>)
             /\ proofs'[s].publicOutput =
                    [ReplayInChunks(commitments, Pending) EXCEPT !.actionState = Len(log)]]_vars

\* A proof over more actions than one step takes was accepted
C24_Witness ==
    \E s \in Settlers :
        /\ proofs[s].made /\ "accepted" \in proofs[s].results
        /\ Cardinality(Batch(proofs[s])) > maxActionsPerProof
        /\ commitments = proofs[s].publicOutput
\* The batch being settled holds registrations only, two or more, of
\* pairwise distinct names and to pairwise different users
DistinctRegistrations(S) ==
    /\ Cardinality(S) >= 2
    /\ \A i \in S : IsRegister(log[i])
    /\ \A i, j \in S :
           i # j => /\ log[i].key # log[j].key
                    /\ log[i].to.value.mina_address # log[j].to.value.mina_address

\* C25: when registrations of distinct names by different users are pending
\* together, one accepted settlement applies every one of them, and
\* afterwards each name resolves to the record submitted for it.
C25_DistinctRegistrationsAllApplied ==
    [][(SettlementStep /\ DistinctRegistrations(SettledNow))
       => \A i \in SettledNow :
              /\ applied'[i] = applied[i] + 1
              /\ resolve_name(log[i].key)' = Ok(log[i].to.value)]_vars
\* C26: the commitments (settled fields and action state) change only in a
\* step in which a settle transaction is accepted, and then to the output of
\* the accepted proof; register_name, set_record, transfer_name_ownership and
\* set_premium, whether they pass or throw, and a failed settle leave them as
\* they are; the action state never decreases.
C26_OnlySettleChangesCommitments ==
    [][/\ commitments' # commitments
          => \E s \in Settlers :
                 /\ proofs[s].made /\ SettleAccepts(proofs[s])
                 /\ "accepted" \in proofs'[s].results
                 /\ commitments' = proofs[s].publicOutput
       /\ (log' # log \/ balance' # balance) => commitments' = commitments
       /\ SettleFailedStep => commitments' = commitments
       /\ commitments'.actionState >= commitments.actionState]_vars

\* After an accepted settlement of a non-empty batch the settler's next
\* proof was rejected, with further actions pending behind the cursor
C26_Witness ==
    \E s \in Settlers :
        /\ commitments.actionState > 0
        /\ PendingIndices # {}
        /\ proofs[s].made /\ "rejected" \in proofs[s].results
        /\ proofs[s].publicInput = commitments
\* A step in which settler s submits again a proof that was accepted before
\* and that covers a non-empty batch
Resubmission(s) ==
    /\ proofs[s].made
    /\ "accepted" \in proofs[s].results
    /\ Batch(proofs[s]) # {}
    /\ settle(s)

\* C27: a settlement proof over a non-empty batch that settle has accepted
\* is rejected when it is submitted again, and the resubmission changes
\* neither the commitments nor the log nor what was replayed.
C27_ProofConsumedOnce ==
    [][\A s \in Settlers :
          Resubmission(s)
          => /\ ~SettleAccepts(proofs[s])
             /\ "rejected" \in proofs'[s].results
             /\ UNCHANGED <<commitments, log, balance, consumed, applied, admin, paused>>]_vars

\* An accepted proof over a non-empty batch was submitted again and rejected
C27_Witness ==
    \E s \in Settlers :
        /\ proofs[s].made /\ Batch(proofs[s]) # {}
        /\ proofs[s].results = {"accepted", "rejected"}
        /\ commitments = proofs[s].publicOutput
        /\ \A k \in Batch(proofs[s]) : consumed[k] = 1
\* C28: a cycle of the daemon in which createSettlementProof failed sends no
\* settle transaction to the ledger, in particular none with a proof left
\* over from another cycle.
C28_NoSubmissionAfterProofFailure ==
    (daemon.last.branch = "attempt" /\ daemon.last.proofFailed)
    => daemon.last.tx \notin {"accepted", "rejected"}
\* The last cycle was an attempt that failed: createSettlementProof threw,
\* or the settle transaction threw or was rejected
AttemptFailed ==
    /\ daemon.last.branch = "attempt"
    /\ daemon.last.proofFailed \/ daemon.last.tx \in {"not built", "throws", "rejected"}

\* C29: after every failed attempt of the daemon, whether proof generation
\* failed or building, proving, signing or sending the settle transaction,
\* the cycle has set a timer for a retry.
C29_FailedAttemptIsRetried == AttemptFailed => daemon.last.retry
\* Timers set and not yet fired, attempts under way
TimersSet == daemon.timers[FieldsUndefined] + daemon.timers[Undefined]
Under(pc, inputs) ==
    daemon.running[[pc |-> pc, inputs |-> inputs, failed |-> FALSE]]
    + daemon.running[[pc |-> pc, inputs |-> inputs, failed |-> TRUE]]
AttemptsUnderWay ==
    Under("proving", SettlementInputs) + Under("proving", FieldsUndefined)
    + Under("submitting", SettlementInputs) + Under("submitting", FieldsUndefined)

CycleBegins == Call \/ \E k \in TimerArgs : TimerFires(k)
AttemptBegins == AttemptsUnderWay' > AttemptsUnderWay

\* C31: a cycle of the daemon attempts settlement exactly when more than 6
\* actions are pending or the counter exceeds 10; a cycle that does not
\* attempt adds one to the counter and sets exactly one timer; a cycle that
\* attempts leaves the counter at 0 when it ends.
C31_AttemptIffThreshold ==
    [][/\ CycleBegins =>
              /\ AttemptBegins <=> (Len(Pending) > 6 \/ daemon.counter > 10)
              /\ ~AttemptBegins =>
                     /\ daemon'.counter = daemon.counter + 1
                     /\ Call => TimersSet' = TimersSet + 1
                     /\ (\E k \in TimerArgs : TimerFires(k)) => TimersSet' = TimersSet
       /\ (\E r \in Attempts : SubmitDone(r)) => daemon'.counter = 0]_vars
\* The last finished cycle was an attempt that succeeded: it got its proof
\* and the ledger accepted its settle transaction
CycleSucceeded ==
    /\ daemon.last.branch = "attempt"
    /\ ~daemon.last.proofFailed
    /\ daemon.last.tx = "accepted"

\* A further cycle is set, under way or has finished
FurtherCycle == TimersSet > 0 \/ AttemptsUnderWay > 0 \/ ~CycleSucceeded

\* C32: after a cycle of the daemon that succeeded, a further cycle is
\* eventually run.
C32_KeepsReconciling == CycleSucceeded ~> FurtherCycle
\* C33: every invocation of settlementCycle that a timer of the daemon
\* starts runs with the same inputs (fee payer, contract instance, the two
\* keys) as the invocation that set the timer: the inputs of a caller are
\* the inputs of every cycle of its chain.
C33_RescheduledWithSameInputs ==
    [][\A k \in TimerArgs :
          TimerFires(k) => k = SettlementInputs]_vars
C35_ChangeAdminHandsOver ==
    [][/\ \A s, a \in Accounts : (s = admin /\ change_admin(s, a)) => get_admin' = a
       /\ admin # Deployer =>
              /\ \A s \in Accounts \ {admin} :
                     /\ toggle_pause(s) => UNCHANGED vars
                     /\ \A a \in Accounts : change_admin(s, a) => UNCHANGED vars
                     /\ \A p \in Premiums : set_premium(s, p) => UNCHANGED vars
              /\ toggle_pause(admin) => is_paused' = ~is_paused
              /\ \A a \in Accounts : change_admin(admin, a) => get_admin' = a
              /\ \A p \in Premiums : set_premium(admin, p) => log' # log]_vars
====
